---- MODULE Spec2Model ----
(***************************************************************************)
(* Model of the Wyckoff-1Min-Reader watchlist tooling.                     *)
(*                                                                         *)
(*  - add_stock.main: one polling cycle of the Telegram-driven watchlist   *)
(*    (fetch updates, read stock_list.txt, parse the batch, rewrite the    *)
(*    file, send the replies, acknowledge the batch).                      *)
(*  - SheetManager: the Google-Sheets row store (add_or_update_stock,      *)
(*    remove_stock, clear_all).                                            *)
(*                                                                         *)
(* Text is a sequence of characters; a character is a one-element string.  *)
(* The CJK characters of the keyword patterns are written by their pinyin  *)
(* in capitals ("QING","KONG" for the clear keyword, and so on), each one  *)
(* standing for one character.                                             *)
(***************************************************************************)
EXTENDS Integers, Sequences, FiniteSets, TLC

VARIABLES
    \* ---- configuration (environment variables) ----
    bot_token,          \* TG_BOT_TOKEN is set
    admin_chat_id,      \* TG_CHAT_ID, "" when unset
    \* ---- the outside world of add_stock.main ----
    now,                \* wall clock, seconds
    file,               \* stock_list.txt: [exists, text]
    pending,            \* updates the Telegram server holds unconfirmed
    nextId,             \* update_id the server gives the next update
    \* ---- the running process (locals of main) ----
    pc,
    updates,
    current_time,
    existing_stocks,
    new_stocks,
    latest_update_id,
    should_clear,
    should_view,
    list_changed,
    final_list,
    \* ---- observations of one cycle ----
    loaded,             \* the file as main read it at line 48-50
    writes,             \* completed rewrites of the file in this cycle
    sent,               \* send_reply calls of this cycle, in order
    acked,              \* [called, ok, offset] of the acknowledgment call
    prev,               \* summary of the previous completed cycle
    ticks,              \* clock steps taken (bounds the model)
    \* ---- SheetManager ----
    sheet,              \* rows of the worksheet, the header row first
    sheetPrev,          \* the rows before the last call
    lastCall            \* the last call and what it returned

cfgVars   == <<bot_token, admin_chat_id>>
envVars   == <<now, file, pending, nextId, ticks>>
\* what the message loop and the decision after it set, and nothing changes later
parsedVars == <<current_time, new_stocks, latest_update_id, should_clear,
                should_view, list_changed, final_list, loaded>>
procVars  == <<pc, updates, existing_stocks, parsedVars>>
obsVars   == <<writes, sent, acked, prev>>
sheetVars == <<sheet, sheetPrev, lastCall>>
vars      == <<cfgVars, envVars, procVars, obsVars, sheetVars>>

(***************************************************************************)
(* Bounds of the model.                                                    *)
(***************************************************************************)
MaxUpdates == 2     \* updates the server ever receives
MaxTicks   == 1     \* clock steps

(***************************************************************************)
(* Program constants.                                                      *)
(***************************************************************************)
FreshWindow == 2400     \* add_stock.py:76
CodeLen     == 6        \* add_stock.py:90
SheetCapacity == 100    \* sheet_manager.py:94

(***************************************************************************)
(* Characters.                                                             *)
(***************************************************************************)
Digits == {"0", "1", "2", "3", "4", "5", "6", "7", "8", "9"}

\* Code point of a digit: the order sorted() puts the lines in.
Ord(ch) ==
    CASE ch = "0" -> 48 [] ch = "1" -> 49 [] ch = "2" -> 50 [] ch = "3" -> 51
      [] ch = "4" -> 52 [] ch = "5" -> 53 [] ch = "6" -> 54 [] ch = "7" -> 55
      [] ch = "8" -> 56 [] ch = "9" -> 57 [] OTHER -> 0

\* re.IGNORECASE folding of the letters that occur in the model's texts.
Lower(ch) ==
    CASE ch = "C" -> "c" [] ch = "L" -> "l" [] ch = "E" -> "e" [] ch = "A" -> "a"
      [] ch = "R" -> "r" [] ch = "S" -> "s" [] ch = "I" -> "i" [] ch = "T" -> "t"
      [] ch = "X" -> "x" [] OTHER -> ch

\* str.strip() removes these.
IsSpace(ch) == ch \in {" ", "\n", "\t"}

(***************************************************************************)
(* The patterns of main.                                                   *)
(***************************************************************************)
ViewKeywords ==
    { <<"CHA", "KAN">>, <<"CHA", "XUN">>, <<"LIE", "BIAO">>,
      <<"l", "i", "s", "t">>, <<"l", "s">>, <<"c", "x">> }

ClearKeywords == { <<"QING", "KONG">>, <<"c", "l", "e", "a", "r">> }

\* keyword kw occurs in text at position i, letter case ignored
MatchesAt(text, kw, i) ==
    /\ i + Len(kw) - 1 <= Len(text)
    /\ \A j \in 1..Len(kw) : Lower(text[i + j - 1]) = kw[j]

\* re.search(r"(k1|k2|...)", text, re.IGNORECASE) finds a match
Search(keywords, text) ==
    \E kw \in keywords : \E i \in 1..Len(text) : MatchesAt(text, kw, i)

\* the CodeLen characters of text from position i on are all digits
DigitsAt(text, i) ==
    /\ i + CodeLen - 1 <= Len(text)
    /\ \A j \in i..(i + CodeLen - 1) : text[j] \in Digits

\* re.findall(r"\d{6}", text): the leftmost match, then on from its end
RECURSIVE FindAllFrom(_, _)
FindAllFrom(text, i) ==
    IF i > Len(text) THEN <<>>
    ELSE IF DigitsAt(text, i)
         THEN <<SubSeq(text, i, i + CodeLen - 1)>> \o FindAllFrom(text, i + CodeLen)
         ELSE FindAllFrom(text, i + 1)

FindAll(text) == FindAllFrom(text, 1)

Range(s) == { s[i] : i \in 1..Len(s) }


(***************************************************************************)
(* stock_list.txt.  The file is its text, one character after the other.   *)
(***************************************************************************)
NoFile == [exists |-> FALSE, text |-> <<>>]

\* a < b for two strings, as Python compares them (by code point)
RECURSIVE StrLess(_, _)
StrLess(a, b) ==
    IF b = <<>> THEN FALSE
    ELSE IF a = <<>> THEN TRUE
    ELSE IF Ord(Head(a)) # Ord(Head(b)) THEN Ord(Head(a)) < Ord(Head(b))
    ELSE StrLess(Tail(a), Tail(b))

\* sorted(S)
RECURSIVE Sorted(_)
Sorted(S) ==
    IF S = {} THEN <<>>
    ELSE LET m == CHOOSE x \in S : \A y \in S \ {x} : StrLess(x, y)
         IN  <<m>> \o Sorted(S \ {m})

\* what lines 112-114 put into the file: f.write(f"{stock}\n") for each stock
RECURSIVE JoinLines(_)
JoinLines(codes) ==
    IF codes = <<>> THEN <<>>
    ELSE Head(codes) \o <<"\n">> \o JoinLines(Tail(codes))

\* mutant of WriteText: the lines in descending order
RECURSIVE Descending(_)
Descending(S) ==
    IF S = {} THEN <<>>
    ELSE LET m == CHOOSE x \in S : \A y \in S \ {x} : StrLess(y, x)
         IN  <<m>> \o Descending(S \ {m})

WriteText_Descending(S) == JoinLines(Descending(S))

WriteText(S) == JoinLines(Sorted(S))

\* iterating a text file: the lines, cut after each "\n"
RECURSIVE SplitLines(_, _)
SplitLines(text, cur) ==
    IF text = <<>> THEN (IF cur = <<>> THEN <<>> ELSE <<cur>>)
    ELSE IF Head(text) = "\n"
         THEN <<Append(cur, "\n")>> \o SplitLines(Tail(text), <<>>)
         ELSE SplitLines(Tail(text), Append(cur, Head(text)))

\* line.strip()
RECURSIVE LStrip(_)
LStrip(s) == IF s # <<>> /\ IsSpace(Head(s)) THEN LStrip(Tail(s)) ELSE s

RECURSIVE RStrip(_)
RStrip(s) ==
    IF s # <<>> /\ IsSpace(s[Len(s)]) THEN RStrip(SubSeq(s, 1, Len(s) - 1)) ELSE s

Strip(s) == RStrip(LStrip(s))

\* lines 47-50: {line.strip() for line in f if line.strip()}, set() without a file
LoadStocks(f) ==
    IF f.exists
    THEN { Strip(l) : l \in { x \in Range(SplitLines(f.text, <<>>)) : Strip(x) # <<>> } }
    ELSE {}

(***************************************************************************)
(* The message loop of main, lines 62-93.                                  *)
(***************************************************************************)
EmptyIntent ==
    [new_stocks |-> {}, latest_update_id |-> 0,
     should_clear |-> FALSE, should_view |-> FALSE]

\* mutant of Unauthorized: the sender is never checked
Unauthorized_Never(admin, u) == FALSE

\* line 72: the sender is not the configured one
Unauthorized(admin, u) == admin # "" /\ u.chat_id # admin

\* mutant of Stale: a message exactly as old as the window is dropped too
Stale_AtWindow(t, u) == t - u.date >= FreshWindow

\* line 76: older than the window
Stale(t, u) == t - u.date > FreshWindow

\* mutant of ParseOne: update_id is recorded after the two filters, not before
ParseOne_LatestOfAccepted(acc, u, admin, t) ==
    IF Unauthorized(admin, u) THEN acc
    ELSE IF Stale(t, u) THEN acc
    ELSE [acc EXCEPT
            !.latest_update_id = IF u.update_id > @ THEN u.update_id ELSE @,
            !.should_view  = @ \/ Search(ViewKeywords, u.text),
            !.should_clear = @ \/ Search(ClearKeywords, u.text),
            !.new_stocks   = @ \cup Range(FindAll(u.text))]

\* mutant of ParseOne: a clear keyword also drops the codes of the messages
\* before it
ParseOne_ClearResets(acc, u, admin, t) ==
    LET seen == [acc EXCEPT !.latest_update_id =
                     IF u.update_id > @ THEN u.update_id ELSE @]
    IN  IF Unauthorized(admin, u) THEN seen
        ELSE IF Stale(t, u) THEN seen
        ELSE [seen EXCEPT
                !.should_view  = @ \/ Search(ViewKeywords, u.text),
                !.should_clear = @ \/ Search(ClearKeywords, u.text),
                !.new_stocks   = IF Search(ClearKeywords, u.text)
                                 THEN Range(FindAll(u.text))
                                 ELSE @ \cup Range(FindAll(u.text))]

\* one pass of the loop body
ParseOne(acc, u, admin, t) ==
    LET seen == [acc EXCEPT !.latest_update_id =
                     IF u.update_id > @ THEN u.update_id ELSE @]
    IN  IF Unauthorized(admin, u) THEN seen
        ELSE IF Stale(t, u) THEN seen
        ELSE [seen EXCEPT
                !.should_view  = @ \/ Search(ViewKeywords, u.text),
                !.should_clear = @ \/ Search(ClearKeywords, u.text),
                !.new_stocks   = @ \cup Range(FindAll(u.text))]

RECURSIVE ParseLoop(_, _, _, _)
ParseLoop(us, acc, admin, t) ==
    IF us = <<>> THEN acc
    ELSE ParseLoop(Tail(us), ParseOne(acc, Head(us), admin, t),
                   admin, t)

\* mutant of FinalList: a clear keeps the entries the file had
FinalList_KeepsExisting(existing, found, clear) == existing \cup found

\* mutant of FinalList: an addition drops the entries the file had
FinalList_DropsExisting(existing, found, clear) == found

\* mutant of FinalList: a code the file already holds is taken off the list
FinalList_Toggles(existing, found, clear) ==
    IF clear THEN found ELSE (existing \ found) \cup (found \ existing)

\* lines 98-109: the set that is written when the list changes
FinalList(existing, found, clear) ==
    IF clear THEN found ELSE existing \cup found

\* mutant of ListChanged: a clear alone changes nothing
ListChanged_CodesOnly(found, clear) == found # {}

\* line 98
ListChanged(found, clear) == found # {} \/ clear


(***************************************************************************)
(* The inputs of the model.                                                *)
(***************************************************************************)
AdminId == "1001"
OtherId == "2002"

C600970 == <<"6", "0", "0", "9", "7", "0">>
C601088 == <<"6", "0", "1", "0", "8", "8">>

C000001 == <<"0", "0", "0", "0", "0", "1">>

\* the texts users send
Texts ==
    { C600970,                                        \* "600970"
      C601088 \o <<"8">>,                             \* "6010888"
      C601088 \o <<" ">> \o C600970 \o <<" ", "C", "l", "e", "a", "r">>,
                                                      \* "601088 600970 Clear"
      <<"QING", "KONG">>,                             \* the clear keyword alone
      <<"L", "s">> }                                  \* "Ls", a view keyword

\* the codes a watchlist file holds when the model starts
Codes == {C000001}

\* time.time() when the model starts: later than the window, as every real clock
StartTime == FreshWindow + 1

NoAck == [called |-> FALSE, ok |-> FALSE, offset |-> 0]

\* unacked: the batch of that cycle when its acknowledgment did not go through
NoCycle == [ok |-> FALSE, S |-> {}, A |-> {}, clear |-> FALSE, final |-> {},
            unacked |-> <<>>]

(***************************************************************************)
(* Initial states.                                                         *)
(***************************************************************************)
ProcInit ==
    /\ pc = "idle"
    /\ updates = <<>>
    /\ current_time = 0
    /\ existing_stocks = {}
    /\ new_stocks = {}
    /\ latest_update_id = 0
    /\ should_clear = FALSE
    /\ should_view = FALSE
    /\ list_changed = FALSE
    /\ final_list = {}
    /\ loaded = NoFile
    /\ writes = 0
    /\ sent = <<>>
    /\ acked = NoAck
    /\ prev = NoCycle

\* row 1 of the worksheet
SheetHeader == <<"Code", "BuyDate", "Qty", "Price">>

\* after: the call made before this one; stocks: what get_all_stocks returned
NoCall == [op |-> "none", code |-> "", date |-> "", qty |-> "", price |-> "",
           result |-> "", stocks |-> {}, after |-> "none"]

\* a worksheet that holds the header row only, and no call made yet
SheetIdle ==
    /\ sheet = <<SheetHeader>>
    /\ sheetPrev = <<SheetHeader>>
    /\ lastCall = NoCall

Init ==
    /\ bot_token \in BOOLEAN
    /\ admin_chat_id \in {"", AdminId}
    /\ now = StartTime
    /\ ticks = 0
    /\ file \in {NoFile} \cup { [exists |-> TRUE, text |-> WriteText(S)] : S \in SUBSET Codes }
    /\ pending = <<>>
    /\ nextId = 1
    /\ ProcInit
    /\ SheetIdle

(***************************************************************************)
(* The outside world: users, the Telegram server, the clock.               *)
(*                                                                         *)
(* main reads the queue when it fetches and changes it when it             *)
(* acknowledges, and reads the clock once, at line 60.  An update that     *)
(* arrives anywhere between the fetch and the acknowledgment therefore has *)
(* the effect of one that arrives just before the acknowledgment, and a    *)
(* clock step anywhere between the fetch and line 60 the effect of one     *)
(* just before line 60: these are the places where the model lets them     *)
(* happen while main runs.                                                 *)
(***************************************************************************)
\* a user sends a text message; the server stamps and queues it
Receive(chat, text) ==
    /\ pc \in {"idle", "ack"}
    /\ nextId <= MaxUpdates
    /\ pending' = Append(pending, [update_id |-> nextId, chat_id |-> chat,
                                   text |-> text, date |-> now])
    /\ nextId' = nextId + 1
    /\ UNCHANGED <<cfgVars, now, file, ticks, procVars, obsVars, sheetVars>>

\* an update that carries no "message" (an edited message, a channel post):
\* lines 63-66 read it as chat_id "", text "" and date 0
ReceiveOther ==
    /\ pc \in {"idle", "ack"}
    /\ nextId <= MaxUpdates
    /\ pending' = Append(pending, [update_id |-> nextId, chat_id |-> "",
                                   text |-> <<>>, date |-> 0])
    /\ nextId' = nextId + 1
    /\ UNCHANGED <<cfgVars, now, file, ticks, procVars, obsVars, sheetVars>>

\* time passes: exactly the window, or one second more
Tick(d) ==
    /\ pc \in {"idle", "load"}
    /\ ticks < MaxTicks
    /\ ticks' = ticks + 1
    /\ now' = now + d
    /\ UNCHANGED <<cfgVars, file, pending, nextId, procVars, obsVars, sheetVars>>

(***************************************************************************)
(* add_stock.main, step by step.  A step ends at each call that reaches    *)
(* outside the process: the fetch, the rewriting of the file, each         *)
(* send_reply, the acknowledgment.  The calls that main guards with        *)
(* try/except fail silently; the rewriting of the file is not guarded.     *)
(***************************************************************************)
\* what the cycle that just ended leaves for the next one to compare with
Summary ==
    IF pc = "done" /\ updates # <<>>
    THEN [ok |-> TRUE, S |-> LoadStocks(loaded), A |-> new_stocks,
          clear |-> should_clear, final |-> existing_stocks,
          unacked |-> IF acked.ok THEN <<>> ELSE updates]
    ELSE NoCycle

\* the script is started
Launch(got, next) ==
    /\ pc = "idle"
    /\ pc' = next
    /\ updates' = got
    /\ UNCHANGED <<cfgVars, envVars, existing_stocks, parsedVars, obsVars, sheetVars>>

\* the process ends (main returned, or died of the exception): its locals are gone
Exit ==
    /\ pc \in {"done", "aborted"}
    /\ pc' = "idle"
    /\ updates' = <<>>
    /\ current_time' = 0
    /\ existing_stocks' = {}
    /\ new_stocks' = {}
    /\ latest_update_id' = 0
    /\ should_clear' = FALSE
    /\ should_view' = FALSE
    /\ list_changed' = FALSE
    /\ final_list' = {}
    /\ loaded' = NoFile
    /\ writes' = 0
    /\ sent' = <<>>
    /\ acked' = NoAck
    /\ prev' = Summary
    /\ UNCHANGED <<cfgVars, envVars, sheetVars>>

\* lines 32-37: no token, nothing is done
NoToken ==
    /\ ~bot_token
    /\ Launch(<<>>, "done")

\* lines 40-43, get_telegram_updates answers: every unconfirmed update
FetchOk ==
    /\ bot_token
    /\ Launch(pending, IF pending = <<>> THEN "done" ELSE "load")

\* lines 9-16, the request fails or is not a 200: an empty list, main returns
FetchFail ==
    /\ bot_token
    /\ Launch(<<>>, "done")

\* lines 45-109: read the file, run the message loop, decide
LoadAndParse ==
    /\ pc = "load"
    /\ current_time' = now
    /\ LET intent == ParseLoop(updates, EmptyIntent, admin_chat_id, now)
           changed == ListChanged(intent.new_stocks, intent.should_clear)
       IN  /\ loaded' = file
           /\ existing_stocks' = LoadStocks(file)
           /\ new_stocks' = intent.new_stocks
           /\ latest_update_id' = intent.latest_update_id
           /\ should_clear' = intent.should_clear
           /\ should_view' = intent.should_view
           /\ list_changed' = changed
           /\ final_list' = IF changed
                            THEN FinalList(LoadStocks(file), intent.new_stocks,
                                           intent.should_clear)
                            ELSE {}
           /\ pc' = IF changed THEN "write"
                    ELSE IF intent.should_view THEN "view" ELSE "ack"
    /\ UNCHANGED <<cfgVars, envVars, updates, obsVars, sheetVars>>

\* mutant of Refreshed: the list in memory stays the one read from the file
Refreshed_Not(existing, final) == existing

\* line 117: existing_stocks = final_list, for the view that follows
Refreshed(existing, final) == final

\* lines 111-117: the file is rewritten and closed
WriteFile ==
    /\ pc = "write"
    /\ file' = [exists |-> TRUE, text |-> WriteText(final_list)]
    /\ existing_stocks' = Refreshed(existing_stocks, final_list)
    /\ writes' = writes + 1
    /\ pc' = "notify"
    /\ UNCHANGED <<cfgVars, now, pending, nextId, ticks, updates, parsedVars,
                   sent, acked, prev, sheetVars>>

\* mutant of Uncaught: the exception is caught and main goes on
Uncaught_Swallowed == "notify"

\* lines 111-114 are in no try block: an exception there ends main
Uncaught == "aborted"

\* line 112 raises (the file is as it was), or the writing after it does (open
\* has truncated the file, which then holds the first n of the lines, not all):
\* main dies of the exception
WriteFails ==
    /\ pc = "write"
    /\ \/ file' = file
       \/ \E n \in 0..(Cardinality(final_list) - 1) :
             file' = [exists |-> TRUE,
                      text |-> JoinLines(SubSeq(Sorted(final_list), 1, n))]
    /\ pc' = Uncaught
    /\ UNCHANGED <<cfgVars, now, pending, nextId, ticks, updates, existing_stocks,
                   parsedVars, obsVars, sheetVars>>

\* mutant of AfterSend: a failed send kills main
AfterSend_Raises(ok, next) == IF ok THEN next ELSE "aborted"

\* send_reply, lines 26-29: `except: pass`, main goes on whether or not the
\* message went out
AfterSend(ok, next) == next

\* send_reply, lines 18-29: the message, its destination, and whether it went out
Reply(kind, codes, ok) ==
    [kind |-> kind, codes |-> codes, to |-> admin_chat_id, delivered |-> ok]

\* mutant of ActionMsg: every change is announced as an addition
ActionMsg_AlwaysAdded(clear) == "added"

\* lines 102-109: action_msg, "list cleared" or "added to the watch"
ActionMsg(clear) == IF clear THEN "cleared" ELSE "added"

\* lines 119-125: the change notification, with the codes of the batch (none:
\* the action message alone)
Notify(ok) ==
    /\ pc = "notify"
    /\ sent' = Append(sent, Reply(ActionMsg(should_clear), Sorted(new_stocks), ok))
    /\ pc' = AfterSend(ok, IF should_view THEN "view" ELSE "ack")
    /\ UNCHANGED <<cfgVars, envVars, updates, existing_stocks, parsedVars,
                   writes, acked, prev, sheetVars>>

\* lines 129-143: the reply to a view request
View(ok) ==
    /\ pc = "view"
    /\ sent' = Append(sent, Reply("view", Sorted(existing_stocks), ok))
    /\ pc' = AfterSend(ok, "ack")
    /\ UNCHANGED <<cfgVars, envVars, updates, existing_stocks, parsedVars,
                   writes, acked, prev, sheetVars>>

\* getUpdates?offset=n: the server forgets every update below n
Confirm(queue, offset) == SelectSeq(queue, LAMBDA u : u.update_id >= offset)

\* lines 146-150, the request reaches the server
AckOk ==
    /\ pc = "ack"
    /\ IF latest_update_id > 0
       THEN /\ pending' = Confirm(pending, latest_update_id + 1)
            /\ acked' = [called |-> TRUE, ok |-> TRUE, offset |-> latest_update_id + 1]
       ELSE UNCHANGED <<pending, acked>>
    /\ pc' = "done"
    /\ UNCHANGED <<cfgVars, now, file, nextId, ticks, updates, existing_stocks,
                   parsedVars, writes, sent, prev, sheetVars>>

\* lines 149-150, the request fails: swallowed, nothing is confirmed
AckFail ==
    /\ pc = "ack"
    /\ latest_update_id > 0
    /\ acked' = [called |-> TRUE, ok |-> FALSE, offset |-> latest_update_id + 1]
    /\ pc' = "done"
    /\ UNCHANGED <<cfgVars, envVars, updates, existing_stocks, parsedVars,
                   writes, sent, prev, sheetVars>>

Next ==
    \/ \E chat \in {AdminId, OtherId}, text \in Texts : Receive(chat, text)
    \/ ReceiveOther
    \/ \E d \in {FreshWindow, FreshWindow + 1} : Tick(d)
    \/ NoToken
    \/ FetchOk
    \/ FetchFail
    \/ LoadAndParse
    \/ WriteFile
    \/ WriteFails
    \/ \E ok \in BOOLEAN : Notify(ok)
    \/ \E ok \in BOOLEAN : View(ok)
    \/ AckOk
    \/ AckFail
    \/ Exit

Spec == Init /\ [][Next]_vars

(***************************************************************************)
(* SheetManager.  A cell is the string the worksheet shows; an argument    *)
(* that is left out (None) is written "".                                  *)
(***************************************************************************)
SheetCodes  == {"600970", "601088"}
SheetDates  == {"", "2024-01-02"}
SheetQtys   == {"", "100", "200", "601088"}
SheetPrices == {"", "9.5"}

Today == "today"        \* datetime.now().strftime("%Y-%m-%d")

\* the cells of the rows, row by row, each with its row number
Cells(rows) == { <<r, c>> : r \in 1..Len(rows), c \in 1..4 }

\* a cell comes before another in the order the worksheet is searched
Before(a, b) == a[1] < b[1] \/ (a[1] = b[1] /\ a[2] < b[2])

\* self.sheet.find(query), called without in_column: the first cell of the
\* whole worksheet whose value is the query; 0 stands for CellNotFound
Find(rows, query) ==
    LET hits == { x \in Cells(rows) : rows[x[1]][x[2]] = query }
    IN  IF hits = {} THEN 0
        ELSE (CHOOSE x \in hits : \A y \in hits \ {x} : Before(x, y))[1]

\* lines 65-67: date or today, qty or 0, price or 0.0
OrDefault(v, d) == IF v = "" THEN d ELSE v

\* the worksheet after add_or_update_stock, lines 69-80
AddOrUpdateRows(rows, code, date, qty, price) ==
    LET r == Find(rows, code)
        d == OrDefault(date, Today)
        q == OrDefault(qty, "0")
        p == OrDefault(price, "0")
    IN  IF r > 0
        THEN [rows EXCEPT ![r] = <<@[1], d, q, p>>]
        ELSE Append(rows, <<code, d, q, p>>)

\* the worksheet without row r
DeleteRow(rows, r) == SubSeq(rows, 1, r - 1) \o SubSeq(rows, r + 1, Len(rows))

\* the worksheet after remove_stock, lines 84-89
RemoveRows(rows, code) ==
    LET r == Find(rows, code)
    IN  IF r > 0 THEN DeleteRow(rows, r) ELSE rows

add_or_update_stock(code, date, qty, price) ==
    /\ sheet' = AddOrUpdateRows(sheet, code, date, qty, price)
    /\ sheetPrev' = sheet
    /\ lastCall' = [op |-> "add_or_update_stock", code |-> code, date |-> date,
                    qty |-> qty, price |-> price,
                    result |-> IF Find(sheet, code) > 0 THEN "Updated" ELSE "Added",
                    stocks |-> {}, after |-> lastCall.op]
    /\ UNCHANGED <<cfgVars, envVars, procVars, obsVars>>

remove_stock(code) ==
    /\ sheet' = RemoveRows(sheet, code)
    /\ sheetPrev' = sheet
    /\ lastCall' = [NoCall EXCEPT !.op = "remove_stock", !.code = code,
                    !.result = IF Find(sheet, code) > 0 THEN "True" ELSE "False",
                    !.after = lastCall.op]
    /\ UNCHANGED <<cfgVars, envVars, procVars, obsVars>>

\* lines 91-94: resize to one row, which keeps row 1, then back to 100 rows,
\* which adds empty ones
\* mutant of Resized: the rows stay
Resized_KeepsRows(rows, n) == rows

\* self.sheet.resize(rows=n): the first n rows stay, the rows after them are
\* dropped, and a worksheet with fewer rows gets empty ones, which hold no data
Resized(rows, n) == SubSeq(rows, 1, IF Len(rows) < n THEN Len(rows) ELSE n)

clear_all ==
    /\ sheet' = Resized(Resized(sheet, 1), SheetCapacity)
    /\ sheetPrev' = sheet
    /\ lastCall' = [NoCall EXCEPT !.op = "clear_all", !.after = lastCall.op]
    /\ UNCHANGED <<cfgVars, envVars, procVars, obsVars>>

\* the rows below the header whose first cell is the code
RowsOf(rows, code) == { r \in 2..Len(rows) : rows[r][1] = code }

\* lines 37-60.  get_all_records() gives one record per row below row 1, keyed
\* by the cells of row 1; the key column is the one whose header holds "Code",
\* a row with an empty key is skipped, a later row of a code replaces an
\* earlier one, and an empty field gets its default.  The dictionary is
\* written as the set of its entries.
GetAllStocks(rows) ==
    { LET r == CHOOSE x \in RowsOf(rows, c) : \A y \in RowsOf(rows, c) : y <= x
      IN  [code |-> c,
           date |-> OrDefault(rows[r][2], Today),
           qty |-> OrDefault(rows[r][3], "0"),
           price |-> OrDefault(rows[r][4], "0.0")]
      : c \in { rows[r][1] : r \in 2..Len(rows) } \ {""} }

get_all_stocks ==
    /\ lastCall' = [NoCall EXCEPT !.op = "get_all_stocks",
                    !.stocks = GetAllStocks(sheet), !.after = lastCall.op]
    /\ UNCHANGED <<sheet, sheetPrev>>
    /\ UNCHANGED <<cfgVars, envVars, procVars, obsVars>>

SheetInit ==
    /\ bot_token = TRUE
    /\ admin_chat_id = AdminId
    /\ now = StartTime
    /\ ticks = 0
    /\ file = NoFile
    /\ pending = <<>>
    /\ nextId = 1
    /\ ProcInit
    /\ SheetIdle

SheetNext ==
    \/ \E code \in SheetCodes, date \in SheetDates, qty \in SheetQtys,
          price \in SheetPrices : add_or_update_stock(code, date, qty, price)
    \/ \E code \in SheetCodes : remove_stock(code)
    \/ clear_all
    \/ get_all_stocks

SheetSpec == SheetInit /\ [][SheetNext]_vars


(***************************************************************************)
(* Vocabulary of the properties of add_stock.main.                         *)
(***************************************************************************)
\* the message loop has run in this cycle
Parsed == pc \in {"write", "notify", "view", "ack", "done", "aborted"} /\ updates # <<>>

\* the cycle is past the place of the write and alive
PastWrite == pc \in {"notify", "view", "ack", "done"} /\ updates # <<>>

\* the cycle ran to its end on a batch
CycleDone == pc = "done" /\ updates # <<>>

\* the messages of the batch that pass both filters
AcceptedUpdates ==
    { u \in Range(updates) :
        ~Unauthorized(admin_chat_id, u) /\ ~Stale(current_time, u) }

\* the codes of the accepted messages
ExtractedCodes == UNION { Range(FindAll(u.text)) : u \in AcceptedUpdates }

\* the highest update_id of a batch
MaxId(us) ==
    CHOOSE m \in { u.update_id : u \in Range(us) } :
        \A u \in Range(us) : u.update_id <= m

\* the digit runs of text that are exactly CodeLen long and cannot be extended
MaximalRuns(text) ==
    { SubSeq(text, i, i + CodeLen - 1) : i \in
        { k \in 1..Len(text) :
            /\ DigitsAt(text, k)
            /\ (k = 1 \/ text[k - 1] \notin Digits)
            /\ (k + CodeLen > Len(text) \/ text[k + CodeLen] \notin Digits) } }

\* a line of the file without the "\n" that ends it
Body(line) == SubSeq(line, 1, Len(line) - 1)

(***************************************************************************)
(* C1.  In a cycle in which an accepted message carries a clear keyword,   *)
(* the file is rewritten and then holds exactly the codes extracted from   *)
(* the accepted messages of the batch: every code of the batch is in it    *)
(* and no entry the file had before is kept unless the batch names it.     *)
(***************************************************************************)
C1_ClearWritesBatchCodes ==
    (PastWrite /\ \E u \in AcceptedUpdates : Search(ClearKeywords, u.text)) =>
        /\ writes = 1
        /\ LoadStocks(file) = ExtractedCodes
        /\ \A c \in LoadStocks(loaded) \ ExtractedCodes : c \notin LoadStocks(file)

C1_Witness ==
    /\ CycleDone
    /\ should_clear
    /\ new_stocks # {}
    /\ LoadStocks(loaded) \ new_stocks # {}
    /\ LoadStocks(file) = new_stocks

(***************************************************************************)
(* C2.  Union law.  A cycle without clear leaves the set S \cup B, where S *)
(* is the set it loaded and B the codes of its batch; two such cycles in a *)
(* row, with codes A and then B, leave S \cup A \cup B, which is what one  *)
(* cycle with the codes A \cup B leaves.                                   *)
(***************************************************************************)
C2_UnionLaw ==
    /\ (CycleDone /\ ~should_clear) =>
           LoadStocks(file) = LoadStocks(loaded) \cup new_stocks
    /\ (CycleDone /\ ~should_clear /\ prev.ok /\ ~prev.clear) =>
           /\ LoadStocks(file) = prev.S \cup prev.A \cup new_stocks
           /\ LoadStocks(file) = FinalList(prev.S, prev.A \cup new_stocks, FALSE)

C2_Witness ==
    /\ CycleDone /\ ~should_clear /\ prev.ok /\ ~prev.clear
    /\ prev.S # {}
    /\ prev.A # {}
    /\ new_stocks \ (prev.S \cup prev.A) # {}
    /\ LoadStocks(file) = prev.S \cup prev.A \cup new_stocks

(***************************************************************************)
(* C3.  The file is rewritten at most once in a cycle, and in a cycle that *)
(* goes on past the place of the write it was rewritten if and only if the *)
(* intent asks for a clear or holds a code.  With neither, the file is     *)
(* what it was when the cycle read it (a view request changes nothing);    *)
(* a clear without codes leaves an existing, empty file.                   *)
(***************************************************************************)
C3_WriteIffChange ==
    /\ writes <= 1
    /\ PastWrite => (writes = 1 <=> (should_clear \/ new_stocks # {}))
    /\ (Parsed /\ ~should_clear /\ new_stocks = {}) => (writes = 0 /\ file = loaded)
    /\ (PastWrite /\ should_clear /\ new_stocks = {}) =>
           file = [exists |-> TRUE, text |-> <<>>]

C3_Witness ==
    /\ CycleDone
    /\ should_clear
    /\ new_stocks = {}
    /\ LoadStocks(loaded) # {}
    /\ writes = 1
    /\ file = [exists |-> TRUE, text |-> <<>>]

(***************************************************************************)
(* C4.  The codes found in a batch are exactly the maximal digit runs of   *)
(* length 6 of the texts of the accepted messages: a longer run gives no   *)
(* code.                                                                   *)
(***************************************************************************)
C4_OnlyMaximalRuns ==
    Parsed => new_stocks = UNION { MaximalRuns(u.text) : u \in AcceptedUpdates }

(***************************************************************************)
(* C5.  With an authorized sender configured, a message of any other       *)
(* sender adds no code and sets neither flag, so a batch of such messages  *)
(* changes nothing and triggers no reply; with none configured, the fresh  *)
(* messages of every sender are processed.                                 *)
(***************************************************************************)
FromAdmin == { u \in Range(updates) : u.chat_id = admin_chat_id }

C5_UnauthorizedIgnored ==
    /\ (Parsed /\ admin_chat_id # "") =>
        /\ new_stocks \subseteq UNION { Range(FindAll(u.text)) : u \in FromAdmin }
        /\ should_clear => \E u \in FromAdmin : Search(ClearKeywords, u.text)
        /\ should_view => \E u \in FromAdmin : Search(ViewKeywords, u.text)
        /\ FromAdmin = {} =>
              /\ ~list_changed
              /\ writes = 0
              /\ file = loaded
              /\ sent = <<>>
    /\ (Parsed /\ admin_chat_id = "") =>
        \A u \in Range(updates) :
            current_time - u.date <= FreshWindow =>
                /\ Range(FindAll(u.text)) \subseteq new_stocks
                /\ Search(ClearKeywords, u.text) => should_clear
                /\ Search(ViewKeywords, u.text) => should_view

C5_Witness ==
    /\ CycleDone
    /\ admin_chat_id # ""
    /\ \E u \in Range(updates) :
          /\ u.chat_id = OtherId
          /\ current_time - u.date <= FreshWindow
          /\ Search(ClearKeywords, u.text)
          /\ FindAll(u.text) # <<>>
    /\ ~should_clear
    /\ new_stocks = {}
    /\ LoadStocks(file) # {}
    /\ acked.ok

(***************************************************************************)
(* C6.  A cycle that ran to its end on a batch has called the              *)
(* acknowledgment with the offset (highest update_id of the whole batch,   *)
(* skipped messages included) + 1, and when the call went through no       *)
(* update of the batch is left on the server.                              *)
(***************************************************************************)
C6_AckPastWholeBatch ==
    CycleDone =>
        /\ acked.called
        /\ acked.offset = MaxId(updates) + 1
        /\ acked.ok => \A u \in Range(updates) : u \notin Range(pending)

C6_Witness ==
    /\ CycleDone
    /\ acked.ok
    /\ Len(updates) > 1
    /\ AcceptedUpdates # {}
    /\ \A u \in AcceptedUpdates : u.update_id < MaxId(updates)
    /\ acked.offset = MaxId(updates) + 1
    /\ \A u \in Range(updates) : u \notin Range(pending)

(***************************************************************************)
(* C7.  The worksheet holds at most one row per code; a call of            *)
(* add_or_update_stock(c) on a worksheet without a row for c appends one   *)
(* row and returns "Added", and on a worksheet with a row for c it returns *)
(* "Updated", adds no row, and that row then carries the qty of the call.  *)
(***************************************************************************)
KeyRows(rows, code) == { r \in 2..Len(rows) : rows[r][1] = code }

C7_OneRowPerCode ==
    /\ \A c \in SheetCodes : Cardinality(KeyRows(sheet, c)) <= 1
    /\ lastCall.op = "add_or_update_stock" =>
        IF KeyRows(sheetPrev, lastCall.code) = {}
        THEN /\ lastCall.result = "Added"
             /\ Len(sheet) = Len(sheetPrev) + 1
             /\ SubSeq(sheet, 1, Len(sheetPrev)) = sheetPrev
             /\ sheet[Len(sheet)][1] = lastCall.code
        ELSE /\ lastCall.result = "Updated"
             /\ Len(sheet) = Len(sheetPrev)
             /\ \A r \in KeyRows(sheet, lastCall.code) :
                   sheet[r][3] = OrDefault(lastCall.qty, "0")

(***************************************************************************)
(* C8.  add_or_update_stock(c) and remove_stock(c) leave every row whose   *)
(* key is not c as it was.                                                 *)
(***************************************************************************)
C8_OtherRowsUntouched ==
    lastCall.op \in {"add_or_update_stock", "remove_stock"} =>
        \A r \in 2..Len(sheetPrev) :
            sheetPrev[r][1] # lastCall.code =>
                \E q \in 2..Len(sheet) : sheet[q] = sheetPrev[r]

(***************************************************************************)
(* C9.  remove_stock(c) on a worksheet without a row for c returns False   *)
(* and changes nothing; on a worksheet with a row for c it deletes that    *)
(* row, and no other, and returns True.                                    *)
(***************************************************************************)
C9_RemoveExactlyKeyRow ==
    lastCall.op = "remove_stock" =>
        IF KeyRows(sheetPrev, lastCall.code) = {}
        THEN lastCall.result = "False" /\ sheet = sheetPrev
        ELSE /\ lastCall.result = "True"
             /\ \E r \in KeyRows(sheetPrev, lastCall.code) :
                   sheet = DeleteRow(sheetPrev, r)

(***************************************************************************)
(* C10.  After a write the file holds every element of the final set once, *)
(* each on a line of its own, in strictly ascending order, and reading it  *)
(* gives the final set back; the next cycle loads exactly the set the      *)
(* cycle before it ended with.                                             *)
(***************************************************************************)
C10_SortedRoundTrip ==
    /\ (PastWrite /\ writes = 1) =>
        LET ls == SplitLines(file.text, <<>>)
        IN  /\ Len(ls) = Cardinality(final_list)
            /\ \A i \in 1..Len(ls) :
                  /\ ls[i][Len(ls[i])] = "\n"
                  /\ Body(ls[i]) \in final_list
            /\ { Body(ls[i]) : i \in 1..Len(ls) } = final_list
            /\ \A i \in 1..(Len(ls) - 1) : StrLess(Body(ls[i]), Body(ls[i + 1]))
            /\ LoadStocks(file) = final_list
    /\ (Parsed /\ prev.ok) => LoadStocks(loaded) = prev.final

C10_Witness ==
    /\ CycleDone
    /\ writes = 1
    /\ Cardinality(final_list) >= 3
    /\ prev.ok
    /\ prev.final # {}
    /\ LoadStocks(file) = final_list

(***************************************************************************)
(* C11.  A cycle that dies of a failure of the write leaves the file       *)
(* holding either the whole set it held before the cycle or the whole      *)
(* final set, never less.                                                  *)
(***************************************************************************)
C11_NoPartialWrite ==
    (pc = "aborted" /\ updates # <<>>) =>
        \/ LoadStocks(file) = LoadStocks(loaded)
        \/ LoadStocks(file) = final_list

(***************************************************************************)
(* C12.  A message older than 2400 seconds when the cycle reads the clock  *)
(* gives the intent nothing: every code and each flag of the intent comes  *)
(* from a message whose age is at most 2400 seconds.  A message of that    *)
(* age, 2400 seconds exactly included, whose sender passes the check gives *)
(* the intent all its codes and its keywords.                              *)
(***************************************************************************)
Age(u) == current_time - u.date

WithinWindow == { u \in Range(updates) : Age(u) <= FreshWindow }

C12_FreshnessWindow ==
    Parsed =>
        /\ new_stocks \subseteq UNION { Range(FindAll(u.text)) : u \in WithinWindow }
        /\ should_clear => \E u \in WithinWindow : Search(ClearKeywords, u.text)
        /\ should_view => \E u \in WithinWindow : Search(ViewKeywords, u.text)
        /\ \A u \in WithinWindow :
              (admin_chat_id = "" \/ u.chat_id = admin_chat_id) =>
                  /\ Range(FindAll(u.text)) \subseteq new_stocks
                  /\ Search(ClearKeywords, u.text) => should_clear
                  /\ Search(ViewKeywords, u.text) => should_view

C12_Witness ==
    /\ CycleDone
    /\ admin_chat_id # ""
    /\ \E u \in Range(updates) :
          /\ Age(u) = FreshWindow
          /\ u.chat_id = admin_chat_id
          /\ Search(ClearKeywords, u.text)
          /\ FindAll(u.text) # <<>>
          /\ Range(FindAll(u.text)) \subseteq new_stocks
    /\ should_clear
    /\ LoadStocks(loaded) # {}
    /\ LoadStocks(file) = new_stocks

(***************************************************************************)
(* C13.  In a cycle whose accepted messages hold a view keyword and a      *)
(* change (a code or a clear keyword), in either order, two replies are    *)
(* sent: first the change notification, then the view reply, and the view  *)
(* reply lists the set the cycle wrote, not the set it read.  With a view  *)
(* keyword and no change the only reply is the view reply, and it lists    *)
(* the set the cycle read.                                                 *)
(***************************************************************************)
ViewAsked == \E u \in AcceptedUpdates : Search(ViewKeywords, u.text)

ClearAsked == \E u \in AcceptedUpdates : Search(ClearKeywords, u.text)

\* the set the reconciliation of this cycle has to produce
Reconciled ==
    IF ClearAsked THEN ExtractedCodes ELSE LoadStocks(loaded) \cup ExtractedCodes

C13_ViewShowsFinalSet ==
    (pc \in {"ack", "done"} /\ updates # <<>> /\ ViewAsked) =>
        IF ClearAsked \/ ExtractedCodes # {}
        THEN /\ Len(sent) = 2
             /\ sent[1].kind \in {"added", "cleared"}
             /\ sent[2].kind = "view"
             /\ sent[2].codes = Sorted(Reconciled)
             /\ Range(sent[2].codes) = LoadStocks(file)
        ELSE /\ Len(sent) = 1
             /\ sent[1].kind = "view"
             /\ sent[1].codes = Sorted(LoadStocks(loaded))

C13_Witness ==
    /\ CycleDone
    /\ Len(updates) = 2
    /\ updates[1] \in AcceptedUpdates
    /\ updates[2] \in AcceptedUpdates
    /\ Search(ViewKeywords, updates[1].text)
    /\ FindAll(updates[1].text) = <<>>
    /\ Search(ClearKeywords, updates[2].text)
    /\ FindAll(updates[2].text) # <<>>
    /\ LoadStocks(loaded) # {}
    /\ Len(sent) = 2
    /\ sent[1].kind = "cleared"
    /\ sent[2].kind = "view"
    /\ Range(sent[2].codes) = {C600970, C601088}

(***************************************************************************)
(* C14.  clear_all leaves the header row and nothing else, whatever rows   *)
(* the worksheet held.  The call made right after it returns: the empty    *)
(* dictionary for get_all_stocks, False for remove_stock of any code (and  *)
(* the worksheet stays as it is), "Added" for add_or_update_stock of any   *)
(* code (and the worksheet is the header and the new row).                 *)
(***************************************************************************)
C14_ClearAllResets ==
    /\ lastCall.op = "clear_all" => sheet = <<SheetHeader>>
    /\ lastCall.after = "clear_all" =>
        /\ lastCall.op = "get_all_stocks" => lastCall.stocks = {}
        /\ lastCall.op = "remove_stock" =>
              lastCall.result = "False" /\ sheet = <<SheetHeader>>
        /\ lastCall.op = "add_or_update_stock" =>
              /\ lastCall.result = "Added"
              /\ Len(sheet) = 2
              /\ sheet[1] = SheetHeader
              /\ sheet[2][1] = lastCall.code

C14_Witness ==
    /\ lastCall.op = "clear_all"
    /\ Len(sheetPrev) >= 3
    /\ \E r \in 2..Len(sheetPrev) : sheetPrev[r][3] \in SheetCodes
    /\ GetAllStocks(sheetPrev) # {}
    /\ sheet = <<SheetHeader>>

(***************************************************************************)
(* C15.  A run that got no update from the fetch ends having read and      *)
(* written no file, sent no reply and made no acknowledgment call.  A      *)
(* reply that did not go out, or an acknowledgment call that failed, does  *)
(* not end the cycle early: the cycle is then at a later step or at its    *)
(* end, never dead, and the file holds what the reconciliation of the      *)
(* batch asks for, whatever became of the calls.                           *)
(***************************************************************************)
\* what the file has to hold once the cycle is past the write
Persisted ==
    IF ClearAsked \/ ExtractedCodes # {} THEN Reconciled ELSE LoadStocks(loaded)

SendFailed == \E i \in 1..Len(sent) : ~sent[i].delivered

AckFailed == acked.called /\ ~acked.ok

C15_BestEffortFailures ==
    /\ (pc = "done" /\ updates = <<>>) =>
          /\ loaded = NoFile
          /\ writes = 0
          /\ sent = <<>>
          /\ ~acked.called
    /\ pc = "aborted" => (sent = <<>> /\ ~acked.called)
    /\ SendFailed => (pc \in {"view", "ack", "done"} /\ LoadStocks(file) = Persisted)
    /\ AckFailed => (pc = "done" /\ LoadStocks(file) = Persisted)
    /\ CycleDone => LoadStocks(file) = Persisted

C15_Witness ==
    /\ CycleDone
    /\ Len(sent) = 2
    /\ ~sent[1].delivered
    /\ ~sent[2].delivered
    /\ AckFailed
    /\ writes = 1
    /\ LoadStocks(loaded) # {}
    /\ LoadStocks(file) = LoadStocks(loaded) \cup {C600970}

(***************************************************************************)
(* C16.  The intent of a batch, and with it the set that is written, is    *)
(* the same for every order of the messages of the batch; the codes of an  *)
(* accepted message that comes before an accepted clear message are in the *)
(* written set, as are those of one that comes after it.                   *)
(***************************************************************************)
\* the rearrangements of a batch
Orders(us) ==
    { [i \in 1..Len(us) |-> us[f[i]]] :
        f \in { g \in [1..Len(us) -> 1..Len(us)] :
                  \A i, j \in 1..Len(us) : g[i] = g[j] => i = j } }

C16_OrderIndependent ==
    Parsed =>
        /\ \A p \in Orders(updates) :
              LET intent == ParseLoop(p, EmptyIntent, admin_chat_id, current_time)
              IN  /\ intent.new_stocks = new_stocks
                  /\ intent.should_clear = should_clear
                  /\ intent.should_view = should_view
                  /\ intent.latest_update_id = latest_update_id
                  /\ list_changed =>
                        FinalList(LoadStocks(loaded), intent.new_stocks,
                                  intent.should_clear) = final_list
        /\ \A u, v \in AcceptedUpdates :
              (u # v /\ Search(ClearKeywords, v.text)) =>
                  /\ Range(FindAll(u.text)) \subseteq final_list
                  /\ PastWrite => Range(FindAll(u.text)) \subseteq LoadStocks(file)

C16_Witness ==
    /\ CycleDone
    /\ Len(updates) = 2
    /\ updates[1] \in AcceptedUpdates
    /\ updates[2] \in AcceptedUpdates
    /\ updates[1].text = C600970
    /\ Search(ClearKeywords, updates[2].text)
    /\ FindAll(updates[2].text) = <<>>
    /\ LoadStocks(loaded) = {C000001}
    /\ LoadStocks(file) = {C600970}

(***************************************************************************)
(* C17.  A cycle sends at most one change notification, and none when the  *)
(* batch asks for no change.  A cycle that asks for a change and is past   *)
(* the notification step has sent exactly one, as its first reply: of the  *)
(* kind "cleared" if an accepted message holds a clear keyword and "added" *)
(* otherwise, listing the codes of the batch, those the file already held  *)
(* included; a clear without codes lists none.                             *)
(***************************************************************************)
ChangeNotices == { i \in 1..Len(sent) : sent[i].kind \in {"added", "cleared"} }

C17_OneChangeNotice ==
    /\ Cardinality(ChangeNotices) <= 1
    /\ (Parsed /\ ~ClearAsked /\ ExtractedCodes = {}) => ChangeNotices = {}
    /\ (pc \in {"view", "ack", "done"} /\ updates # <<>>
            /\ (ClearAsked \/ ExtractedCodes # {})) =>
          /\ ChangeNotices = {1}
          /\ sent[1].kind = "cleared" <=> ClearAsked
          /\ sent[1].kind = "added" <=> ~ClearAsked
          /\ sent[1].codes = Sorted(ExtractedCodes)
          /\ (ClearAsked /\ ExtractedCodes = {}) => sent[1].codes = <<>>

C17_Witness ==
    /\ CycleDone
    /\ ~should_clear
    /\ new_stocks # {}
    /\ new_stocks \subseteq LoadStocks(loaded)
    /\ LoadStocks(file) = LoadStocks(loaded)
    /\ ChangeNotices = {1}
    /\ sent[1].kind = "added"
    /\ Range(sent[1].codes) = new_stocks
    /\ prev.ok
    /\ prev.A = new_stocks

(***************************************************************************)
(* C18.  When the acknowledgment of a cycle did not go through and the     *)
(* next cycle gets the same batch, every message of it that passes the     *)
(* sender check still within the window, the file after the second cycle   *)
(* holds the set it held after the first.  More generally a cycle whose    *)
(* intent has the codes and the clear flag of the cycle before it leaves   *)
(* the set that cycle left, with and without clear.                        *)
(***************************************************************************)
StillFresh ==
    \A u \in Range(updates) :
        ~Unauthorized(admin_chat_id, u) => Age(u) <= FreshWindow

Redelivered == prev.ok /\ updates # <<>> /\ prev.unacked = updates

C18_RedeliveryHarmless ==
    /\ (CycleDone /\ Redelivered /\ StillFresh) =>
          /\ new_stocks = prev.A
          /\ should_clear = prev.clear
          /\ LoadStocks(file) = prev.final
    /\ (CycleDone /\ prev.ok /\ new_stocks = prev.A /\ should_clear = prev.clear) =>
          LoadStocks(file) = prev.final

C18_Witness ==
    /\ CycleDone
    /\ Redelivered
    /\ StillFresh
    /\ ~should_clear
    /\ new_stocks # {}
    /\ prev.S # {}
    /\ prev.final = prev.S \cup new_stocks
    /\ LoadStocks(loaded) = prev.final
    /\ writes = 1
    /\ LoadStocks(file) = prev.final

(***************************************************************************)
(* C19.  A cycle whose intent holds no clear never takes an entry out of   *)
(* the file: from the message loop on, the file holds every entry the      *)
(* cycle read from it.                                                     *)
(***************************************************************************)
C19_NoClearNoLoss ==
    (Parsed /\ ~should_clear) => LoadStocks(loaded) \subseteq LoadStocks(file)

(***************************************************************************)
(* C20.  The acknowledgment call is made only when the write, if the batch *)
(* asks for one, is complete: whenever the call has been made the file     *)
(* holds the reconciled set.  A cycle that died of the write has made no   *)
(* acknowledgment call and sent nothing, and its whole batch is still at   *)
(* the head of the server's queue, where the next fetch finds it.          *)
(***************************************************************************)
C20_AckAfterWrite ==
    /\ acked.called =>
          /\ pc = "done"
          /\ (ClearAsked \/ ExtractedCodes # {}) => writes = 1
          /\ LoadStocks(file) = Persisted
    /\ (pc = "ack" /\ (ClearAsked \/ ExtractedCodes # {})) =>
          (writes = 1 /\ LoadStocks(file) = Persisted)
    /\ pc = "aborted" =>
          /\ ~acked.called
          /\ Len(pending) >= Len(updates)
          /\ SubSeq(pending, 1, Len(updates)) = updates

C20_Witness ==
    /\ CycleDone
    /\ acked.ok
    /\ writes = 1
    /\ LoadStocks(loaded) # {}
    /\ LoadStocks(loaded) # LoadStocks(file)
    /\ LoadStocks(file) = Persisted
    /\ pending = <<>>

====
